---- MODULE Spec2Model ----
(***************************************************************************)
(* The chat widget of client/src/App.tsx (component ChatInterface) as a    *)
(* state machine.                                                          *)
(*                                                                         *)
(* The state is the component's five useState hooks.  Every DOM event      *)
(* handler and every continuation of a suspended handleSend call is one    *)
(* action: JavaScript runs each of them to completion on the single UI     *)
(* thread.  The only suspension point is the fetch of sendMessageToServer  *)
(* (line 94, followed by response.json() at line 106, between which the    *)
(* handler writes nothing), so a handleSend call is split in two actions:  *)
(* the synchronous part up to the await of line 41, and the continuation   *)
(* that runs when the request settles.                                     *)
(*                                                                         *)
(* Handlers are closures over the values of the render that created them   *)
(* (handleSend reads messages, input and files from its closure).  A DOM   *)
(* event is rendered before the next event is dispatched, so input, files  *)
(* and isDragging, which only DOM events write, are always current in the  *)
(* closure.  The continuation of handleSend runs outside a DOM event: its  *)
(* updates are committed by a render that is scheduled as a later task,    *)
(* and a DOM event can be dispatched before it.  The values of messages    *)
(* and isLoading that the handlers and the send button see are therefore   *)
(* kept apart, in rendered.                                                *)
(***************************************************************************)
EXTENDS Integers, Sequences, FiniteSets, TLC

\* Bounds of the whole application (Spec).
MaxSends == 2        \* requests issued in a run
MaxBlobs == 2        \* FileInfo objects created in a run
MaxDrop == 1         \* files in one FileList

\* Bounds of one exchange with the server (SpecExchange).
ExchangeSends == 1   \* requests issued in a run
ExchangeBlobs == 1   \* FileInfo objects created in a run

\* Bounds of a session around one send (SpecSession).
SessionSends == 1    \* requests issued in a run
SessionBlobs == 2    \* FileInfo objects created in a run

\* Bound of a conversation of texts only (SpecReplies).
ReplySends == 2      \* requests issued in a run

\* Bounds of the Composer on its own (SpecComposer).
ComposerBlobs == 3   \* FileInfo objects created in a run
ComposerDrop == 2    \* files in one FileList

VARIABLES
    messages,    \* line 20: the Conversation Store
    input,       \* line 21: the Composer's text
    isDragging,  \* line 22: the drag highlight
    files,       \* line 23: the Composer's pending attachments
    isLoading,   \* line 25: the busy flag
    rendered,    \* messages and isLoading as of the last committed render
    pending,     \* the requests in flight: handleSend calls suspended at line 41
    issued,      \* number of requests issued so far (fetch calls, line 94)
    nextBlob,    \* number of Blob objects created so far (line 63)
    event        \* the event that was handled last, with its arguments

vars == <<messages, input, isDragging, files, isLoading, rendered, pending,
          issued, nextBlob, event>>

(***************************************************************************)
(* Values.                                                                 *)
(***************************************************************************)

\* line 17.  The sentinel is compared by reference (lines 43, 49).  No other
\* object the program puts in the store has the sentinel's shape (a user
\* Message has sender "user", a reply has files and images fields, the error
\* Message has another text), so equality of records is equality of
\* references here.
LOADING_MESSAGE == [text |-> "Loading...", sender |-> "agent"]

\* lines 50-53; the text starts with the character U+274C.
ERROR_MESSAGE ==
    [text |-> "\\u274C Error: Failed to send message. Please try again.",
     sender |-> "agent"]

\* The texts the user types in the model (e.target.value, line 200).
TextValues == {"", " \t", " hi "}

\* The File objects the user can select or drop (name and MIME type).
Files ==
    {[name |-> "data.csv", type |-> "text/csv"],
     [name |-> "plot.png", type |-> "image/png"]}

RECURSIVE SeqsUpTo(_, _)
SeqsUpTo(S, n) ==
    IF n = 0 THEN {<<>>}
    ELSE LET shorter == SeqsUpTo(S, n - 1)
         IN  shorter \cup {Append(s, x) : s \in shorter, x \in S}

\* The FileLists of a drop or of the file input: up to n files of the kinds.
FileLists(kinds, n) == SeqsUpTo(kinds, n)

\* Where the names of the files do not matter, one kind of file is used.
OneFile == {[name |-> "data.csv", type |-> "text/csv"]}

(***************************************************************************)
(* String.prototype.trim (line 28).                                        *)
(***************************************************************************)
WhiteSpace == {" ", "\t", "\n", "\r"}

RECURSIVE TrimStart(_)
TrimStart(s) ==
    IF Len(s) > 0 /\ SubSeq(s, 1, 1) \in WhiteSpace
    THEN TrimStart(SubSeq(s, 2, Len(s)))
    ELSE s

RECURSIVE TrimEnd(_)
TrimEnd(s) ==
    IF Len(s) > 0 /\ SubSeq(s, Len(s), Len(s)) \in WhiteSpace
    THEN TrimEnd(SubSeq(s, 1, Len(s) - 1))
    ELSE s

Trim(s) == TrimEnd(TrimStart(s))

(***************************************************************************)
(* Array.prototype.filter, as the program uses it.                         *)
(***************************************************************************)

\* prevFiles.filter((_, i) => i !== index), line 70; i counts from 0.
RECURSIVE FilterIndex(_, _, _)
FilterIndex(s, index, i) ==
    IF s = <<>> THEN <<>>
    ELSE IF i # index
         THEN <<Head(s)>> \o FilterIndex(Tail(s), index, i + 1)
         ELSE FilterIndex(Tail(s), index, i + 1)

\* A slip: the placeholder is recognised by its text.
NotLoading_byText(msg) ==
    ~("text" \in DOMAIN msg /\ msg.text = "Loading...")

\* prev.filter((msg) => msg !== LOADING_MESSAGE), lines 43 and 49.
NotLoading(msg) == msg # LOADING_MESSAGE

FilterLoading(prev) == SelectSeq(prev, NotLoading)

(***************************************************************************)
(* The server's answers.  A parsed JSON object is a sequence of            *)
(* <<key, value>> pairs in the order Object.keys enumerates its keys.      *)
(***************************************************************************)
ObjectKeys(o) == [i \in 1..Len(o) |-> o[i][1]]

Get(o, k) == o[CHOOSE i \in 1..Len(o) : o[i][1] = k][2]

\* The bodies that parse as JSON: responseData of line 106.  A property the
\* body lacks is a field the record lacks.
ResponseData ==
    {[messages |-> <<"hello">>, files |-> <<>>],
     [messages |-> <<"a", "b">>, files |-> << <<"x", "iVBORw0KGgo=">> >>],
     [messages |-> <<"Loading...">>,
      files |-> << <<"plot_2", "QUJD">>, <<"plot_1", "REVG">> >>],
     [files |-> <<>>],
     [messages |-> <<>>, files |-> <<>>],
     [messages |-> <<"a">>]}

\* How a request settles: fetch rejects (network failure), or resolves with
\* a status that is OK or not and a body that parses as JSON or does not.
Outcomes ==
    {[fetch |-> "rejected"]}
    \cup {[fetch |-> "resolved", ok |-> FALSE,
           body |-> [valid |-> TRUE,
                     data |-> [messages |-> <<"hello">>, files |-> <<>>]]]}
    \cup {[fetch |-> "resolved", ok |-> TRUE, body |-> [valid |-> FALSE]]}
    \cup {[fetch |-> "resolved", ok |-> TRUE,
           body |-> [valid |-> TRUE, data |-> d]] : d \in ResponseData}

(***************************************************************************)
(* sendMessageToServer, lines 84-123.                                      *)
(***************************************************************************)

\* A slip: the attachments are left out of the payload.
FormData_textOnly(message) == [input |-> message.text, files |-> <<>>]

\* lines 85-92: the multipart payload.
FormData(message) ==
    [input |-> message.text,
     files |-> IF "files" \in DOMAIN message
               THEN [i \in 1..Len(message.files) |->
                        [data |-> message.files[i].data,
                         filename |-> message.files[i].name]]
               ELSE <<>>]

\* lines 116-120: one data URI per key of responseData.files, in key order.
Images(responseFiles) ==
    [i \in 1..Len(responseFiles) |->
        "data:image/png;base64," \o Get(responseFiles, ObjectKeys(responseFiles)[i])]

\* A slip: the first element of messages instead of the last.
ReceivedMessage_first(responseData) ==
    LET rest == [sender |-> "agent", files |-> <<>>,
                 images |-> Images(responseData.files)]
    IN  IF Len(responseData.messages) > 0
        THEN [text |-> responseData.messages[1]] @@ rest
        ELSE rest

\* lines 109-114: reading past the end of an array yields undefined, which
\* is a Message without a text.
ReceivedMessage(responseData) ==
    LET n == Len(responseData.messages)
        rest == [sender |-> "agent", files |-> <<>>,
                 images |-> Images(responseData.files)]
    IN  IF n > 0
        THEN [text |-> responseData.messages[n]] @@ rest
        ELSE rest

Thrown == [threw |-> TRUE]

Returned(v) == [threw |-> FALSE, value |-> v]

\* A slip: the status of the response is not looked at.
sendMessageToServer_anyStatus(outcome) ==
    IF outcome.fetch = "rejected" THEN Thrown
    ELSE IF ~outcome.body.valid THEN Thrown
    ELSE Returned(<<ReceivedMessage(outcome.body.data)>>)

\* lines 94-122: what the call yields once the request has settled.
sendMessageToServer(outcome) ==
    IF outcome.fetch = "rejected" THEN Thrown                   \* line 94
    ELSE IF ~outcome.ok THEN Thrown                             \* lines 102-104
    ELSE IF ~outcome.body.valid THEN Thrown                     \* line 106
    ELSE LET responseData == outcome.body.data
         IN  IF "messages" \notin DOMAIN responseData
             THEN Thrown                                        \* line 110
             ELSE IF "files" \notin DOMAIN responseData
             THEN Thrown                                        \* line 116
             ELSE Returned(<<ReceivedMessage(responseData)>>)   \* line 122

(***************************************************************************)
(* The component: state after the first render (lines 20-25).              *)
(***************************************************************************)
Init ==
    /\ messages = <<>>
    /\ input = ""
    /\ isDragging = FALSE
    /\ files = <<>>
    /\ isLoading = FALSE
    /\ rendered = [messages |-> <<>>, isLoading |-> FALSE]
    /\ pending = {}
    /\ issued = 0
    /\ nextBlob = 0
    /\ event = [op |-> "mount"]

\* What a render captures for the handlers and the markup it creates.
Current == [messages |-> messages, isLoading |-> isLoading]

(***************************************************************************)
(* handleSend, lines 27-58.                                                *)
(***************************************************************************)

\* A slip: the text is not trimmed.
NothingToSend_untrimmed(text, fs) == text = "" /\ Len(fs) = 0

\* line 28: the guard of the early return.
NothingToSend(text, fs) == Trim(text) = "" /\ Len(fs) = 0

\* A slip: the Message gets the trimmed text.
NewMessage_trimmed(text, fs) ==
    [text |-> Trim(text), sender |-> "user", files |-> fs]

\* line 30.
NewMessage(text, fs) == [text |-> text, sender |-> "user", files |-> fs]

\* lines 31 and 37: the store after the two updates of the synchronous part.
\* The first one overwrites the store with a value built from the closure's
\* messages, the second one is applied to its result.
StoreAfterSend(closureMessages, newMessage) ==
    (closureMessages \o <<newMessage>>) \o <<LOADING_MESSAGE>>

\* lines 42-45 and 48-54: the store after the request has settled.
StoreAfterSettle(prev, result) ==
    IF result.threw
    THEN FilterLoading(prev) \o <<ERROR_MESSAGE>>
    ELSE FilterLoading(prev) \o result.value

\* lines 39-57: the try statement catches whatever the call throws, and its
\* catch and finally blocks throw nothing: the promise handleSend returned
\* is fulfilled either way.
SettledPromise(result) == "fulfilled"

\* lines 27-41: the call up to the await.  It runs in a DOM event, whose
\* updates are rendered before the next event.
\* A slip: the pending attachments stay in the Composer after a send.
FilesAfterSend_kept(prevFiles) == prevFiles

\* line 35: setFiles([]).
FilesAfterSend(prevFiles) == <<>>

handleSend ==
    /\ event' = [op |-> "handleSend"]
    /\ IF NothingToSend(input, files)
       THEN UNCHANGED <<messages, input, files, isLoading, rendered, pending,
                        issued>>
       ELSE LET newMessage == NewMessage(input, files)
            IN  /\ messages' = StoreAfterSend(rendered.messages, newMessage)
                /\ input' = ""
                /\ files' = FilesAfterSend(files)
                /\ isLoading' = TRUE
                /\ issued' = issued + 1
                /\ pending' = pending \cup
                      {[id |-> issued + 1, formData |-> FormData(newMessage)]}
                /\ rendered' = [messages |-> messages', isLoading |-> TRUE]
    /\ UNCHANGED <<isDragging, nextBlob>>

\* lines 41-57: the continuation, when request req settles with outcome o.
\* It runs outside a DOM event: the render of its updates is scheduled.
Settle(req, o) ==
    /\ req \in pending
    /\ pending' = pending \ {req}
    /\ messages' = StoreAfterSettle(messages, sendMessageToServer(o))
    /\ isLoading' = FALSE                                        \* line 56
    /\ event' = [op |-> "settle", id |-> req.id, outcome |-> o,
                 promise |-> SettledPromise(sendMessageToServer(o))]
    /\ UNCHANGED <<input, isDragging, files, rendered, issued, nextBlob>>

\* The scheduled render: the handlers and the send button get the current
\* messages and isLoading.
Render ==
    /\ rendered # Current
    /\ rendered' = Current
    /\ event' = [op |-> "render"]
    /\ UNCHANGED <<messages, input, isDragging, files, isLoading, pending,
                   issued, nextBlob>>

(***************************************************************************)
(* The Composer and the drop target, lines 60-82.                          *)
(***************************************************************************)

\* lines 61-65: one FileInfo per File, each with a Blob of its own.
FileInfos(newFiles, blobs) ==
    [i \in 1..Len(newFiles) |->
        [name |-> newFiles[i].name, data |-> blobs + i,
         type |-> newFiles[i].type]]

\* A slip: the new files are put first.
FilesAfterAdd_first(prevFiles, fileList) == fileList \o prevFiles

\* line 66.
FilesAfterAdd(prevFiles, fileList) == prevFiles \o fileList

\* A slip: positions are counted from 1.
FilesAfterRemove_fromOne(prevFiles, index) == FilterIndex(prevFiles, index, 1)

\* line 70.
FilesAfterRemove(prevFiles, index) == FilterIndex(prevFiles, index, 0)

\* lines 60-67.
handleFiles(newFiles) ==
    /\ files' = FilesAfterAdd(files, FileInfos(newFiles, nextBlob))
    /\ nextBlob' = nextBlob + Len(newFiles)

\* lines 69-71.
removeFile(index) ==
    /\ files' = FilesAfterRemove(files, index)
    /\ event' = [op |-> "removeFile", index |-> index]
    /\ UNCHANGED <<messages, input, isDragging, isLoading, rendered, pending,
                   issued, nextBlob>>

\* lines 73-77.
DropHighlight == FALSE

handleFileDrop(newFiles) ==
    /\ isDragging' = DropHighlight
    /\ handleFiles(newFiles)
    /\ event' = [op |-> "handleFileDrop", newFiles |-> newFiles]
    /\ UNCHANGED <<messages, input, isLoading, rendered, pending, issued>>

\* A slip: dragging over the widget raises the busy flag as well.
handleDragOver_busy ==
    /\ isDragging' = TRUE
    /\ isLoading' = TRUE
    /\ event' = [op |-> "handleDragOver"]
    /\ UNCHANGED <<messages, input, files, rendered, pending, issued, nextBlob>>

\* lines 79-82.
handleDragOver ==
    /\ isDragging' = TRUE
    /\ event' = [op |-> "handleDragOver"]
    /\ UNCHANGED <<messages, input, files, isLoading, rendered, pending,
                   issued, nextBlob>>

\* line 168.
onDragLeave ==
    /\ isDragging' = FALSE
    /\ event' = [op |-> "onDragLeave"]
    /\ UNCHANGED <<messages, input, files, isLoading, rendered, pending,
                   issued, nextBlob>>

\* line 187: the file input.
onFileInputChange(newFiles) ==
    /\ handleFiles(newFiles)
    /\ event' = [op |-> "onFileInputChange", newFiles |-> newFiles]
    /\ UNCHANGED <<messages, input, isDragging, isLoading, rendered, pending,
                   issued>>

\* lines 199-201: the text input.
onInputChange(value) ==
    /\ value # input
    /\ input' = value
    /\ event' = [op |-> "onInputChange"]
    /\ UNCHANGED <<messages, isDragging, files, isLoading, rendered, pending,
                   issued, nextBlob>>

\* lines 202-204: Enter in the text input.
onKeyPressEnter == handleSend

\* lines 208-211: the send button, which the last render disabled or not.
onClickSend ==
    /\ ~rendered.isLoading
    /\ handleSend

(***************************************************************************)
(* The whole application: every handler, in every order the event loop     *)
(* allows.  A run issues at most MaxSends requests and creates at most     *)
(* MaxBlobs attachments.                                                   *)
(***************************************************************************)

\* The indices removeFile is called with: those of the rendered attachment
\* list (line 227) and, for its contract, the two neighbours out of range.
RemoveIndices == -1 .. Len(files)

Next ==
    \/ \E value \in TextValues : onInputChange(value)
    \/ issued < MaxSends /\ onKeyPressEnter
    \/ issued < MaxSends /\ onClickSend
    \/ \E newFiles \in FileLists(OneFile, MaxDrop) :
          nextBlob + Len(newFiles) <= MaxBlobs /\ onFileInputChange(newFiles)
    \/ \E newFiles \in FileLists(OneFile, MaxDrop) :
          nextBlob + Len(newFiles) <= MaxBlobs /\ handleFileDrop(newFiles)
    \/ handleDragOver
    \/ onDragLeave
    \/ \E index \in RemoveIndices : removeFile(index)
    \/ \E req \in pending, o \in Outcomes : Settle(req, o)
    \/ Render

Spec == Init /\ [][Next]_vars

(***************************************************************************)
(* One exchange with the server: the text input, the file input, the two   *)
(* ways to send, the settling of the request and the render.               *)
(***************************************************************************)
NextExchange ==
    \/ \E value \in TextValues : onInputChange(value)
    \/ issued < ExchangeSends /\ onKeyPressEnter
    \/ issued < ExchangeSends /\ onClickSend
    \/ \E newFiles \in FileLists(OneFile, MaxDrop) :
          nextBlob + Len(newFiles) <= ExchangeBlobs /\ onFileInputChange(newFiles)
    \/ \E req \in pending, o \in Outcomes : Settle(req, o)
    \/ Render

SpecExchange == Init /\ [][NextExchange]_vars

(***************************************************************************)
(* The Composer and the drop target on their own, with files of two kinds. *)
(***************************************************************************)
NextComposer ==
    \/ \E value \in TextValues : onInputChange(value)
    \/ \E newFiles \in FileLists(Files, ComposerDrop) :
          nextBlob + Len(newFiles) <= ComposerBlobs /\ onFileInputChange(newFiles)
    \/ \E newFiles \in FileLists(Files, ComposerDrop) :
          nextBlob + Len(newFiles) <= ComposerBlobs /\ handleFileDrop(newFiles)
    \/ handleDragOver
    \/ onDragLeave
    \/ \E index \in RemoveIndices : removeFile(index)

SpecComposer == Init /\ [][NextComposer]_vars

(***************************************************************************)
(* A session around one send: every handler of the application, before the *)
(* send, while its request is in flight and after it has settled.          *)
(***************************************************************************)
NextSession ==
    \/ \E value \in TextValues : onInputChange(value)
    \/ issued < SessionSends /\ onKeyPressEnter
    \/ issued < SessionSends /\ onClickSend
    \/ \E newFiles \in FileLists(OneFile, MaxDrop) :
          nextBlob + Len(newFiles) <= SessionBlobs /\ onFileInputChange(newFiles)
    \/ \E newFiles \in FileLists(OneFile, MaxDrop) :
          nextBlob + Len(newFiles) <= SessionBlobs /\ handleFileDrop(newFiles)
    \/ handleDragOver
    \/ onDragLeave
    \/ \E index \in RemoveIndices : removeFile(index)
    \/ \E req \in pending, o \in Outcomes : Settle(req, o)
    \/ Render

SpecSession == Init /\ [][NextSession]_vars

(***************************************************************************)
(* A conversation of texts only, in which the server either fails or       *)
(* answers with the text of the placeholder.                               *)
(***************************************************************************)
LookalikeOutcomes ==
    {o \in Outcomes :
        \/ o.fetch = "rejected"
        \/ /\ o.fetch = "resolved" /\ o.ok /\ o.body.valid
           /\ "messages" \in DOMAIN o.body.data
           /\ o.body.data.messages = <<"Loading...">>}

NextReplies ==
    \/ \E value \in TextValues : onInputChange(value)
    \/ issued < ReplySends /\ onKeyPressEnter
    \/ issued < ReplySends /\ onClickSend
    \/ \E req \in pending, o \in LookalikeOutcomes : Settle(req, o)
    \/ Render

SpecReplies == Init /\ [][NextReplies]_vars

(***************************************************************************)
(* Vocabulary of the properties.                                           *)
(***************************************************************************)
IsUser(msg) == msg.sender = "user"

IsAgent(msg) == msg.sender = "agent"

IsPlaceholder(msg) == msg = LOADING_MESSAGE

IsReal(msg) == msg # LOADING_MESSAGE

\* The user Messages of a store, the Messages that are not the placeholder,
\* and the number of placeholders.
UserMessages(store) == SelectSeq(store, IsUser)

RealMessages(store) == SelectSeq(store, IsReal)

Placeholders(store) == Len(SelectSeq(store, IsPlaceholder))

AgentMessages(store) == SelectSeq(store, IsAgent)

\* A text with a character that is not white space, and its contrary.
HasVisibleChar(text) ==
    \E i \in 1..Len(text) : SubSeq(text, i, i) \notin {" ", "\t", "\n", "\r"}

\* The step is a call of handleSend, a settled request, ...
SendStep == event'.op = "handleSend"

SettleStep == event'.op = "settle"

\* The transport failures: the network fails, the status is not OK (whatever
\* the body), the body does not parse as JSON.
TransportFails(o) ==
    \/ o.fetch = "rejected"
    \/ o.fetch = "resolved" /\ ~o.ok
    \/ o.fetch = "resolved" /\ o.ok /\ ~o.body.valid

\* The successful responses {messages, files} with a non-empty messages list.
WellFormed(o) ==
    /\ o.fetch = "resolved" /\ o.ok /\ o.body.valid
    /\ "messages" \in DOMAIN o.body.data
    /\ "files" \in DOMAIN o.body.data
    /\ Len(o.body.data.messages) > 0

(***************************************************************************)
(* C1.  While a request is outstanding and the busy flag is true, a send   *)
(* attempt (send button or Enter) issues no request and does not change    *)
(* the Conversation Store.                                                 *)
(***************************************************************************)
C1_SendBlockedWhileBusy ==
    [][(SendStep /\ isLoading /\ pending # {})
          => UNCHANGED <<messages, pending, issued>>]_vars

(***************************************************************************)
(* C2.  The Conversation Store holds at most one loading placeholder, in   *)
(* every reachable state.                                                  *)
(***************************************************************************)
C2_AtMostOnePlaceholder == Placeholders(messages) <= 1

(***************************************************************************)
(* C3.  As claimed: from a Composer with a non-empty text or a non-empty   *)
(* file list, send() adds exactly one user Message with the current text   *)
(* and attachments, at the end of the store before the placeholder, while  *)
(* the request is in flight, and leaves the Composer empty.                *)
(***************************************************************************)
SendAccepted ==
    LET n == Len(messages')
    IN  /\ UserMessages(messages') = UserMessages(messages)
               \o <<[text |-> input, sender |-> "user", files |-> files]>>
        /\ n >= 2
        /\ messages'[n - 1] = [text |-> input, sender |-> "user", files |-> files]
        /\ messages'[n] = LOADING_MESSAGE
        /\ \E req \in pending' \ pending : req.id = issued'
        /\ input' = ""
        /\ files' = <<>>

C3_SendNonEmpty ==
    [][(SendStep /\ (input # "" \/ files # <<>>)) => SendAccepted]_vars

\* C3, amended: the same from a Composer whose text has a character that is
\* not white space, or whose file list is non-empty.
C3_SendNonBlank ==
    [][(SendStep /\ (HasVisibleChar(input) \/ files # <<>>)) => SendAccepted]_vars

\* A send of a text with surrounding white space and an attachment is in
\* flight.
C3_Witness ==
    /\ event.op = "handleSend"
    /\ pending # {}
    /\ Len(messages) >= 2
    /\ messages[Len(messages)] = LOADING_MESSAGE
    /\ messages[Len(messages) - 1].sender = "user"
    /\ messages[Len(messages) - 1].text = " hi "
    /\ Len(messages[Len(messages) - 1].files) = 1
    /\ input = ""
    /\ files = <<>>

(***************************************************************************)
(* C4.  With a text that is empty or only white space and no attachment,   *)
(* send() changes nothing: not the store, not the busy flag, not the       *)
(* Composer, and no request is issued.                                     *)
(***************************************************************************)
C4_EmptySendIsNoOp ==
    [][(SendStep /\ ~HasVisibleChar(input) /\ files = <<>>)
          => UNCHANGED <<messages, isLoading, input, files, pending, issued>>]_vars

\* handleSend has run on a text of white space only, which is still there.
C4_Witness ==
    /\ event.op = "handleSend"
    /\ input = " \t"
    /\ files = <<>>
    /\ messages = <<>>
    /\ issued = 0

(***************************************************************************)
(* C5.  When the request of a send fails (network failure, status not OK   *)
(* whatever the body, body that is not JSON), exactly one agent Message    *)
(* with the fixed error text is appended, no placeholder is left, the busy *)
(* flag is false, the promise of send() is fulfilled and no other request  *)
(* is issued.                                                              *)
(***************************************************************************)
C5_FailureBecomesErrorMessage ==
    [][(SettleStep /\ TransportFails(event'.outcome)) =>
          /\ \E msg \in {messages'[Len(messages')]} :
                /\ RealMessages(messages') = RealMessages(messages) \o <<msg>>
                /\ msg.sender = "agent"
                /\ msg.text = ERROR_MESSAGE.text
          /\ Placeholders(messages') = 0
          /\ isLoading' = FALSE
          /\ event'.promise = "fulfilled"
          /\ issued' = issued
          /\ pending' \subseteq pending]_vars

\* A request was answered with a status that is not OK and a well-formed
\* body, and the store ends with the error Message.
C5_Witness ==
    /\ event.op = "settle"
    /\ event.outcome.fetch = "resolved"
    /\ ~event.outcome.ok
    /\ event.outcome.body.valid
    /\ messages[Len(messages)] = ERROR_MESSAGE
    /\ ~isLoading

(***************************************************************************)
(* C6.  A successful response {messages, files} with a non-empty messages  *)
(* list appends exactly one agent Message: its text is the last element of *)
(* messages, its images are one data URI per key of files, in key order.   *)
(***************************************************************************)
C6_ReplyFromResponse ==
    [][(SettleStep /\ WellFormed(event'.outcome)) =>
          LET data == event'.outcome.body.data
          IN  \E msg \in {messages'[Len(messages')]} :
                /\ RealMessages(messages') = RealMessages(messages) \o <<msg>>
                /\ msg.sender = "agent"
                /\ msg.text = data.messages[Len(data.messages)]
                /\ Len(msg.images) = Len(data.files)
                /\ \A i \in 1..Len(data.files) :
                      msg.images[i] = "data:image/png;base64," \o data.files[i][2]]_vars

\* A response with two files was received: two images, in key order.
C6_Witness ==
    /\ event.op = "settle"
    /\ WellFormed(event.outcome)
    /\ Len(event.outcome.body.data.files) = 2
    /\ messages[Len(messages)].images =
          <<"data:image/png;base64,QUJD", "data:image/png;base64,REVG">>

(***************************************************************************)
(* C7.  Idle or Sending: a request is in flight exactly when the busy flag *)
(* is true, exactly when the placeholder is in the store.                  *)
(***************************************************************************)
C7_IdleOrSending ==
    /\ (pending # {}) <=> isLoading
    /\ isLoading <=> (Placeholders(messages) > 0)

(***************************************************************************)
(* C8.  With no request in flight, the busy flag is false, the store has   *)
(* no placeholder and as many agent Messages as user Messages: each        *)
(* accepted send got exactly one reply or error Message.                   *)
(***************************************************************************)
C8_OneAnswerPerSend ==
    pending = {} =>
        /\ ~isLoading
        /\ Placeholders(messages) = 0
        /\ Len(AgentMessages(messages)) = Len(UserMessages(messages))

(***************************************************************************)
(* C9.  removeFile(index) with an index out of range (negative, or at or   *)
(* beyond the length) leaves the attachment list as it is; with an index   *)
(* in range it removes the attachment at that position and keeps the       *)
(* others in their order.                                                  *)
(***************************************************************************)
C9_RemoveFileByIndex ==
    [][event'.op = "removeFile" =>
          LET index == event'.index
          IN  IF index < 0 \/ index >= Len(files)
              THEN files' = files
              ELSE files' = SubSeq(files, 1, index)
                               \o SubSeq(files, index + 2, Len(files))]_vars

\* removeFile ran with the index just beyond a list of two attachments or
\* more, none of which was ever removed.
C9_Witness ==
    /\ event.op = "removeFile"
    /\ event.index = Len(files)
    /\ Len(files) = nextBlob
    /\ Len(files) >= 2

(***************************************************************************)
(* C10.  A drop clears the drag highlight and appends the dropped files,   *)
(* in drop order, after the attachments already pending, whatever their    *)
(* names; drag-over sets the highlight and drag-leave clears it.           *)
(***************************************************************************)
C10_DropAppendsInOrder ==
    [][/\ event'.op = "handleFileDrop" =>
             LET dropped == event'.newFiles
             IN  /\ isDragging' = FALSE
                 /\ Len(files') = Len(files) + Len(dropped)
                 /\ SubSeq(files', 1, Len(files)) = files
                 /\ \A i \in 1..Len(dropped) :
                       /\ files'[Len(files) + i].name = dropped[i].name
                       /\ files'[Len(files) + i].type = dropped[i].type
       /\ event'.op = "handleDragOver" => isDragging' = TRUE
       /\ event'.op = "onDragLeave" => isDragging' = FALSE]_vars

\* Two files of different names were dropped on a pending attachment that
\* has the name of the first of them: all three are pending, in order.
C10_Witness ==
    /\ event.op = "handleFileDrop"
    /\ ~isDragging
    /\ Len(event.newFiles) = 2
    /\ event.newFiles[1].name # event.newFiles[2].name
    /\ Len(files) = 3
    /\ nextBlob = 3
    /\ files[1].name = files[2].name
    /\ files[2].name = event.newFiles[1].name
    /\ files[3].name = event.newFiles[2].name

(***************************************************************************)
(* C11.  The store is append-only apart from the placeholder: in every     *)
(* step the Messages that are not the placeholder stay where they are,     *)
(* and new ones come after them.                                           *)
(***************************************************************************)
IsPrefix(s, t) == Len(s) <= Len(t) /\ SubSeq(t, 1, Len(s)) = s

C11_AppendOnly ==
    [][IsPrefix(RealMessages(messages), RealMessages(messages'))]_vars

(***************************************************************************)
(* C12.  A completion removes only the sentinel: an agent Message that is  *)
(* not the sentinel but reads "Loading..." stays in the store, in place,   *)
(* when a request completes.                                               *)
(***************************************************************************)
IsLookalike(msg) ==
    /\ msg # LOADING_MESSAGE
    /\ msg.sender = "agent"
    /\ "text" \in DOMAIN msg
    /\ msg.text = "Loading..."

Lookalikes(store) == SelectSeq(store, IsLookalike)

C12_OnlySentinelRemoved ==
    [][SettleStep => IsPrefix(Lookalikes(messages), Lookalikes(messages'))]_vars

\* A request has completed while a reply reading "Loading..." was in the
\* store, and the reply is still there.
C12_Witness ==
    /\ event.op = "settle"
    /\ event.id = 2
    /\ \E i \in 1..(Len(messages) - 1) : IsLookalike(messages[i])

(***************************************************************************)
(* C13.  The request of an accepted send carries the snapshot taken at     *)
(* send time: its input field is the Composer's text, its files fields are *)
(* the pending attachments, in order.  Text edits, added and removed files *)
(* change neither the requests in flight nor the Messages in the store.    *)
(***************************************************************************)
ComposerOps ==
    {"onInputChange", "onFileInputChange", "handleFileDrop", "removeFile"}

C13_RequestIsSnapshot ==
    [][/\ (SendStep /\ issued' # issued) =>
             \E req \in pending' :
                 /\ req.id = issued'
                 /\ pending' = pending \cup {req}
                 /\ req.formData.input = input
                 /\ Len(req.formData.files) = Len(files)
                 /\ \A i \in 1..Len(files) :
                       /\ req.formData.files[i].data = files[i].data
                       /\ req.formData.files[i].filename = files[i].name
       /\ event'.op \in ComposerOps => UNCHANGED <<pending, messages>>]_vars

\* While a request with the text " hi " and one attachment is in flight,
\* the user has attached another file and typed another text.
C13_Witness ==
    /\ event.op = "onInputChange"
    /\ input = " \t"
    /\ Len(files) = 1
    /\ \E req \in pending :
          /\ req.formData.input = " hi "
          /\ Len(req.formData.files) = 1
          /\ req.formData.files[1].data # files[1].data
    /\ messages[1].text = " hi "
    /\ Len(messages[1].files) = 1

(***************************************************************************)
(* C14.  No AttachedFile instance belongs to two Messages, and none that   *)
(* belongs to a Message of the store is still in the Composer's pending    *)
(* list.  An instance is known by the blob it holds.                       *)
(***************************************************************************)
Blobs(fs) == {fs[i].data : i \in 1..Len(fs)}

MessageBlobs(msg) == IF "files" \in DOMAIN msg THEN Blobs(msg.files) ELSE {}

DragOps == {"handleDragOver", "onDragLeave"}

ComposerAccepted ==
    /\ ENABLED (\E value \in TextValues : onInputChange(value))
    /\ ENABLED (\E newFiles \in FileLists(Files, 1) : onFileInputChange(newFiles))
    /\ ENABLED (\E newFiles \in FileLists(Files, 1) : handleFileDrop(newFiles))
    /\ ENABLED (\E index \in RemoveIndices : removeFile(index))
    /\ ENABLED handleDragOver
    /\ ENABLED onDragLeave

C15_ComposerLeavesStoreAlone ==
    /\ []ComposerAccepted
    /\ [][/\ event'.op \in ComposerOps \cup DragOps =>
                UNCHANGED <<messages, isLoading, pending, issued>>
          /\ (messages' # messages \/ isLoading' # isLoading) =>
                \/ SendStep /\ issued' = issued + 1
                \/ SettleStep]_vars

\* A drag passes over the widget while a request is in flight.
C15_Witness ==
    /\ event.op = "handleDragOver"
    /\ isDragging
    /\ isLoading
    /\ pending # {}
    /\ Len(messages) = 2
    /\ messages[2] = LOADING_MESSAGE

(***************************************************************************)
(* C16.  The store alternates strictly: a user Message at every odd        *)
(* position, an agent Message at every even one, and the placeholder, when *)
(* there is one, at the last position.                                     *)
(***************************************************************************)
C16_StrictAlternation ==
    /\ \A i \in 1..Len(messages) :
          IF i % 2 = 1 THEN IsUser(messages[i]) ELSE IsAgent(messages[i])
    /\ \A i \in 1..Len(messages) :
          IsPlaceholder(messages[i]) => i = Len(messages)

(***************************************************************************)
(* C17.  Every agent Message of the store has a text that is a string; a   *)
(* response without a messages list, with an empty one, or without files   *)
(* ends as a transport failure does, with the error Message.               *)
(***************************************************************************)
Malformed(o) ==
    /\ o.fetch = "resolved" /\ o.ok /\ o.body.valid
    /\ ~WellFormed(o)

C17_AgentTextDefined ==
    /\ \A i \in 1..Len(messages) :
          IsAgent(messages[i]) => "text" \in DOMAIN messages[i]
    /\ (event.op = "settle" /\ Malformed(event.outcome)) =>
          messages[Len(messages)] = ERROR_MESSAGE

====
